---- MODULE Spec2Model ----
(***************************************************************************)
(* NeuroCrawler: dataset reference extraction and multi-repository         *)
(* download engine.                                                        *)
(*                                                                         *)
(*   DataDownloader           src/utils/data_utils.py                      *)
(*   DatasetDownloadManager   src/utils/dataset_downloader.py              *)
(*   DatasetExtractor         src/parsers/dataset_extractor.py             *)
(*                                                                         *)
(* The download side is a state machine whose steps are the calls of the   *)
(* public operations and the answers of the network: a call runs until it  *)
(* issues an HTTP request, the answer (any status, or a RequestException)  *)
(* resumes it until the next request or its return.  The file system is    *)
(* taken to be reliable: a write of the history file or of a downloaded    *)
(* page succeeds.  The extraction side applies extract_from_html to an     *)
(* article page.                                                           *)
(***************************************************************************)
EXTENDS Integers, Sequences, FiniteSets, TLC

VARIABLES
    download_history,   \* DataDownloader.download_history: download id -> status
    history_file,       \* contents of download_history.json
    call,               \* the running or last download_single_dataset / download_dataset call
    pending,            \* the HTTP request the running call waits for
    batch,              \* the running or last download_datasets call
    prev,               \* the user call completed before `call`
    article,            \* the article page handed to DatasetExtractor.extract_from_html
    extracted,          \* what extract_from_html returned for it
    dedup,              \* a call of DatasetExtractor._deduplicate_datasets
    classified,         \* the classifier calls made so far, with their results
    retry,              \* a call of DataDownloader._download_with_retry
    browser,            \* a call of DatasetDownloadManager._download_with_selenium
    crawl,              \* a call of download_datasets_from_crawler_results
    store,              \* download_history.json on disk and the DataDownloader built on it
    layout,             \* the output directories chosen for a list of references
    scheduler,          \* Scheduler.jobs and the calls made on the scheduler
    proxy               \* ProxyManager and the threads calling get_proxy

dlvars == <<download_history, history_file, call, pending, batch, prev>>
exvars == <<article, extracted>>
auxvars == <<dedup, classified, retry, browser, crawl>>
sidevars == <<store, layout, scheduler, proxy>>
vars == <<dlvars, exvars, auxvars, sidevars>>

(***************************************************************************)
(* Bounds of the model.                                                    *)
(***************************************************************************)
MaxBatch == 3           \* longest list handed to download_datasets
MaxItems == 3           \* most items and supplementary links on an article page
MaxCandidates == 3      \* longest list handed to _deduplicate_datasets
MaxCalls == 2           \* most classifier calls in one run

(***************************************************************************)
(* Program constants.                                                      *)
(***************************************************************************)
retry_count == 3        \* DataDownloader.retry_count (default)
skip_existing == TRUE   \* DataDownloader.skip_existing (default)
\* DatasetDownloadManager tests hasattr(self.downloader, '_download_with_selenium');
\* DataDownloader defines no such method.
has_download_with_selenium == FALSE
\* DatasetDownloadManager calls self.downloader._add_to_download_history;
\* DataDownloader defines no such method, so the call raises AttributeError.
max_concurrent_downloads == 3
has_add_to_download_history == FALSE

(***************************************************************************)
(* URLs.  A URL is the part of its text the code looks at: the host, the   *)
(* number of path segments and the extension its text ends with.           *)
(***************************************************************************)
Url(host, segs, ext) == [host |-> host, segs |-> segs, ext |-> ext]
EmptyUrl == Url("", 0, "")
U_web == Url("example.org", 1, "")
U_zip == Url("example.org", 1, ".zip")
U_gh  == Url("github.com", 2, "")
U_fig == Url("figshare.com", 3, "")
U_zen == Url("zenodo.org", 2, "")

\* HTTP answers: a status code, or 0 for a requests.RequestException (timeout,
\* connection error).
Responses == {200, 404, 503, 0}

Ref(url, name, repository) == [url |-> url, name |-> name, repository |-> repository]

EmptyHistory == [k \in {} |-> "success"]
Put(h, k, v) == [j \in DOMAIN h \cup {k} |-> IF j = k THEN v ELSE h[j]]
Del(h, k) == [j \in DOMAIN h \ {k} |-> h[j]]
StatusOf(h, k) == IF k \in DOMAIN h THEN h[k] ELSE "none"

(***************************************************************************)
(* DataDownloader: pure helpers.                                           *)
(***************************************************************************)
_get_download_id(dataset) ==
    IF dataset.url # EmptyUrl THEN <<"url", dataset.url>>
    ELSE IF dataset.name # "" /\ dataset.repository # ""
         THEN <<"name", dataset.name, dataset.repository>>
         ELSE <<"hash", dataset.name, dataset.repository, "md5">>

\* Mutant: any history record, whatever its status, counts as downloaded.
is_dataset_downloaded_AnyRecord(h, dataset) ==
    IF dataset.url = EmptyUrl THEN FALSE
    ELSE _get_download_id(dataset) \in DOMAIN h

is_dataset_downloaded(h, dataset) ==
    IF dataset.url = EmptyUrl THEN FALSE
    ELSE LET download_id == _get_download_id(dataset)
         IN  IF download_id \in DOMAIN h THEN h[download_id] = "success" ELSE FALSE

file_extensions ==
    {".zip", ".tar", ".gz", ".rar", ".7z", ".csv", ".txt", ".json", ".pdf",
     ".nii", ".nii.gz", ".mat"}

_determine_url_type(url) ==
    IF url.ext \in file_extensions THEN "direct_download"
    ELSE IF url.host = "github.com" THEN "github"
    ELSE IF url.host = "figshare.com" THEN "figshare"
    ELSE IF url.host = "zenodo.org" THEN "zenodo"
    ELSE IF url.host = "osf.io" THEN "osf"
    ELSE IF url.host = "datadryad.org" THEN "dryad"
    ELSE IF url.host = "dataverse.org" THEN "dataverse"
    ELSE IF url.host = "kaggle.com" THEN "kaggle"
    ELSE "webpage"

(***************************************************************************)
(* DatasetDownloadManager: pure helpers.                                   *)
(***************************************************************************)
\* Mutant: no default tag.
_detect_repository_NoDefault(url) ==
    IF url.host = "figshare.com" THEN "figshare"
    ELSE IF url.host = "zenodo.org" THEN "zenodo"
    ELSE IF url.host = "github.com" THEN "github"
    ELSE ""

_detect_repository(url) ==
    IF url.host = "figshare.com" THEN "figshare"
    ELSE IF url.host = "zenodo.org" THEN "zenodo"
    ELSE IF url.host = "osf.io" THEN "osf"
    ELSE IF url.host = "dataverse.org" THEN "dataverse"
    ELSE IF url.host = "datadryad.org" THEN "dryad"
    ELSE IF url.host = "openneuro.org" THEN "openneuro"
    ELSE IF url.host = "nature.com" THEN "nature"
    ELSE IF url.host = "github.com" THEN "github"
    ELSE IF url.host = "kaggle.com" THEN "kaggle"
    ELSE "website"

\* The keys of special_downloaders in download_single_dataset.
special_downloaders == {"figshare", "zenodo", "osf", "dryad"}

\* repository == "自动检测" asks download_single_dataset to detect the platform.
AutoDetect == "auto-detect"

\* _generate_dataset_name: the last path segment (or the host) plus a timestamp.
_generate_dataset_name(url) ==
    IF url.segs = 0 THEN url.host ELSE "generated_name_timestamp"

(***************************************************************************)
(* The strategies, request by request.  Begin_x is the code of strategy x  *)
(* up to its first HTTP request, Resume the code from an answer to the     *)
(* next request or to the strategy's return.                               *)
(***************************************************************************)
NoPending == [ctx |-> "none", strategy |-> "none", pc |-> "none", attempt |-> 0]
Request(pc, attempt) == [kind |-> "request", pc |-> pc, attempt |-> attempt,
                         ok |-> FALSE, message |-> ""]
Result(ok, message) == [kind |-> "result", pc |-> "none", attempt |-> 0,
                        ok |-> ok, message |-> message]

\* One pass of the loop of _download_with_retry, for the answer r of attempt
\* number `attempt` (0-based): "ok" returns (True, ...), "again" goes round
\* the loop, "failed" leaves the loop and returns (False, ...).
\* Mutant: the loop is not bounded by retry_count.
_download_with_retry_Unbounded(attempt, r) ==
    IF r = 200 THEN "ok" ELSE "again"

_download_with_retry(attempt, r) ==
    IF r = 200 THEN "ok"
    ELSE IF attempt + 1 < retry_count THEN "again"
    ELSE "failed"

\* _download_html: one GET, success iff the status is 200.  requests.get of
\* an empty URL raises MissingSchema before any request is sent.
\* Mutant: the status test inverted.
_download_html_Inverted(r) == r # 200

_download_html(r) == r = 200

\* _download_webpage: _download_html, then metadata.json.
Begin_webpage(url) ==
    IF url = EmptyUrl THEN Result(FALSE, "html_exception")
    ELSE Request("html", 0)
_download_webpage(r) ==
    IF _download_html(r) THEN Result(TRUE, "webpage_and_metadata_saved")
    ELSE Result(FALSE, "html_error")

\* _download_direct_file: _download_with_retry on the URL itself.
Begin_direct_file(url) == Request("file", 0)
_download_direct_file(p, r) ==
    LET w == _download_with_retry(p.attempt, r)
    IN  IF w = "ok" THEN Result(TRUE, "retry_ok")
        ELSE IF w = "again" THEN Request("file", p.attempt + 1)
        ELSE Result(FALSE, "retry_exhausted")

\* github_pattern r'https?://github\.com/([^/]+)/([^/]+)'
github_match(url) == url.host = "github.com" /\ url.segs >= 2

\* _download_github: main.zip, then master.zip, then the page.
Begin_github(url) ==
    IF github_match(url) THEN Request("main", 0) ELSE Begin_webpage(url)
\* Mutant: master.zip is requested after the first failed request for main.zip.
_download_github_NoRetryOnMain(p, url, r) ==
    LET w == _download_with_retry(p.attempt, r)
    IN  IF p.pc = "main"
        THEN IF w = "ok" THEN Result(TRUE, "github_zip_saved") ELSE Request("master", 0)
        ELSE IF w = "ok" THEN Result(TRUE, "github_zip_saved")
             ELSE IF w = "again" THEN Request("master", p.attempt + 1)
             ELSE Begin_webpage(url)

_download_github(p, url, r) ==
    LET w == _download_with_retry(p.attempt, r)
    IN  IF p.pc = "main"
        THEN IF w = "ok" THEN Result(TRUE, "github_zip_saved")
             ELSE IF w = "again" THEN Request("main", p.attempt + 1)
             ELSE Request("master", 0)
        ELSE IF w = "ok" THEN Result(TRUE, "github_zip_saved")
             ELSE IF w = "again" THEN Request("master", p.attempt + 1)
             ELSE Begin_webpage(url)

\* _download_figshare: fetches the page; a status other than 200, a page
\* without download links and any exception all end in _download_webpage.
\* A page with links raises NameError (data_utils.py imports neither
\* datetime nor urljoin) before the first file is requested, which the
\* handler also answers with _download_webpage.
Begin_figshare(url) ==
    IF url = EmptyUrl THEN Begin_webpage(url) ELSE Request("page", 0)
_download_figshare(p, url, r) == Begin_webpage(url)

Begin(strategy, url) ==
    IF strategy = "direct_download" THEN Begin_direct_file(url)
    ELSE IF strategy = "github" THEN Begin_github(url)
    ELSE IF strategy = "figshare" THEN Begin_figshare(url)
    ELSE Begin_webpage(url)     \* zenodo, osf, dryad, dataverse, kaggle, webpage

Resume(p, url, r) ==
    IF p.pc = "file" THEN _download_direct_file(p, r)
    ELSE IF p.pc \in {"main", "master"} THEN _download_github(p, url, r)
    ELSE IF p.pc = "page" THEN _download_figshare(p, url, r)
    ELSE _download_webpage(r)

(***************************************************************************)
(* The calls.  A state of the download side is the record                  *)
(* [h, f, c, p, b] of the five variables; the operators below are the code *)
(* between two requests.                                                   *)
(***************************************************************************)
NoRef == Ref(EmptyUrl, "", "")
NoCall == [op |-> "none", by |-> "user", dataset |-> NoRef, force |-> FALSE,
           use_selenium |-> FALSE, entry |-> "none", trace |-> <<>>, requests |-> 0,
           done |-> TRUE, ok |-> FALSE, message |-> ""]
NewCall(op, by, dataset, force, use_selenium, entry) ==
    [op |-> op, by |-> by, dataset |-> dataset, force |-> force,
     use_selenium |-> use_selenium, entry |-> entry, trace |-> <<>>, requests |-> 0,
     done |-> FALSE, ok |-> FALSE, message |-> ""]
NoBatch == [running |-> FALSE, returned |-> FALSE, datasets |-> <<>>, i |-> 1, total |-> 0,
            success_count |-> 0, failed_count |-> 0, skipped_count |-> 0,
            details |-> <<>>, log |-> <<>>]
NoPrev == [op |-> "none", url |-> EmptyUrl, force |-> FALSE, ok |-> FALSE]

_save_download_history(s) == [s EXCEPT !.f = s.h]

RECURSIVE FinishStrategy(_, _, _, _)
RECURSIVE download_dataset(_)
RECURSIVE Return(_, _, _)
RECURSIVE BatchLoop(_)

\* Runs `strategy` for the call's URL up to its first request.
StartStrategy(s, ctx, strategy) ==
    LET b == Begin(strategy, s.c.dataset.url)
        t == [s EXCEPT !.p = [ctx |-> ctx, strategy |-> strategy, pc |-> b.pc,
                              attempt |-> b.attempt]]
    IN  IF b.kind = "request"
        THEN [t EXCEPT !.c.requests = @ + 1]
        ELSE FinishStrategy(t, b.ok, b.message, FALSE)

\* Mutant: a record is written for a successful attempt only.
RecordAttempt_SuccessOnly(s, ok) ==
    IF ok
    THEN _save_download_history(
             [s EXCEPT !.h = Put(@, _get_download_id(s.c.dataset), "success")])
    ELSE s

\* Mutant: the attempt leaves no record.
RecordAttempt_NotRecorded(s, ok) == s

\* download_dataset lines 161-171: the history record of an attempt.
RecordAttempt(s, ok) ==
    _save_download_history(
        [s EXCEPT !.h = Put(@, _get_download_id(s.c.dataset),
                            IF ok THEN "success" ELSE "failed")])

\* The strategy s.p names has returned (ok, message); got200 tells whether
\* the last answer it received was HTTP 200.
FinishStrategy(s, ok, message, got200) ==
    LET t == [s EXCEPT !.c.trace = Append(@, [ctx |-> s.p.ctx, strategy |-> s.p.strategy,
                                              ok |-> ok, got200 |-> got200]),
                       !.p = NoPending]
    IN  IF s.p.ctx = "special"
        THEN \* download_single_dataset lines 243-256
             IF ok /\ has_add_to_download_history
             THEN Return(RecordAttempt(t, TRUE), TRUE, message)
             ELSE download_dataset(t)
        ELSE \* download_dataset lines 161-173
             Return(RecordAttempt(t, ok), ok, message)

\* DataDownloader.download_dataset from its history check on (lines 131-173).
download_dataset(s) ==
    LET download_id == _get_download_id(s.c.dataset)
    IN  IF StatusOf(s.h, download_id) = "success" /\ skip_existing
        THEN Return(s, TRUE, "already_downloaded")
        ELSE StartStrategy(s, "regular", _determine_url_type(s.c.dataset.url))

\* Mutant: a failed reference is logged but not counted.
Counted_FailureNotCounted(b, d, ok, message, entry, ran) ==
    [b EXCEPT !.success_count = IF ok THEN @ + 1 ELSE @,
              !.details = Append(@, [dataset |-> d.name, repository |-> d.repository,
                                     success |-> ok, skipped |-> FALSE,
                                     error |-> IF ok THEN "" ELSE message]),
              !.log = Append(@, [outcome |-> IF ok THEN "success" ELSE "failed",
                                 entry |-> entry, ran |-> ran]),
              !.i = @ + 1]

\* download_datasets lines 229-245: the outcome of one reference.
Counted(b, d, ok, message, entry, ran) ==
    [b EXCEPT !.success_count = IF ok THEN @ + 1 ELSE @,
              !.failed_count = IF ok THEN @ ELSE @ + 1,
              !.details = Append(@, [dataset |-> d.name, repository |-> d.repository,
                                     success |-> ok, skipped |-> FALSE,
                                     error |-> IF ok THEN "" ELSE message]),
              !.log = Append(@, [outcome |-> IF ok THEN "success" ELSE "failed",
                                 entry |-> entry, ran |-> ran]),
              !.i = @ + 1]

\* download_dataset returns (ok, message) to its caller.
Return(s, ok, message) ==
    LET t == [s EXCEPT !.c.done = TRUE, !.c.ok = ok, !.c.message = message]
    IN  IF s.c.by = "batch"
        THEN BatchLoop([t EXCEPT !.b = Counted(@, s.c.dataset, ok, message, s.c.entry,
                                              Len(s.c.trace))])
        ELSE \* download_single_dataset lines 262-288: the Selenium fallback needs
             \* use_selenium and a DataDownloader._download_with_selenium
             IF s.c.op = "single" /\ ~ok /\ s.c.use_selenium /\ has_download_with_selenium
             THEN [t EXCEPT !.c.message = "selenium"]
             ELSE t

\* The loop of download_datasets (lines 198-263) from reference number b.i.
BatchLoop(s) ==
    IF s.b.i > Len(s.b.datasets)
    THEN [s EXCEPT !.b.running = FALSE, !.b.returned = TRUE]
    ELSE LET d == s.b.datasets[s.b.i]
         IN  IF d.url = EmptyUrl
             THEN BatchLoop([s EXCEPT !.b.skipped_count = @ + 1, !.b.i = @ + 1,
                                      !.b.log = Append(@, [outcome |-> "skipped_no_url",
                                            entry |-> StatusOf(s.h, _get_download_id(d)),
                                            ran |-> 0])])
             ELSE IF is_dataset_downloaded(s.h, d)
             THEN BatchLoop([s EXCEPT !.b.skipped_count = @ + 1, !.b.i = @ + 1,
                                      !.b.details = Append(@, [dataset |-> d.name,
                                            repository |-> d.repository, success |-> FALSE,
                                            skipped |-> TRUE, error |-> "exists"]),
                                      !.b.log = Append(@, [outcome |-> "skipped_exists",
                                            entry |-> StatusOf(s.h, _get_download_id(d)),
                                            ran |-> 0])])
             ELSE download_dataset(
                    [s EXCEPT !.c = NewCall("dataset", "batch", d, FALSE, FALSE,
                                            StatusOf(s.h, _get_download_id(d)))])

\* DatasetDownloadManager.download_single_dataset up to its first request.
download_single_dataset(s, dataset_url, name, repository, force, use_selenium) ==
    LET repo == IF repository = "" \/ repository = AutoDetect
                THEN _detect_repository(dataset_url) ELSE repository
        nm == IF name = "" THEN _generate_dataset_name(dataset_url) ELSE name
        dataset == Ref(dataset_url, nm, repo)
        download_id == _get_download_id(dataset)
        c == NewCall("single", "user", dataset, force, use_selenium,
                     StatusOf(s.h, download_id))
        \* lines 219-225
        t == IF ~force /\ is_dataset_downloaded(s.h, dataset)
             THEN _save_download_history([s EXCEPT !.h = Del(@, download_id), !.c = c])
             ELSE [s EXCEPT !.c = c]
    IN  IF repo \in special_downloaders
        THEN StartStrategy(t, "special", repo)
        ELSE download_dataset(t)

\* DataDownloader.download_datasets up to its first request.
download_datasets(s, datasets) ==
    BatchLoop([s EXCEPT !.c = NoCall,
                        !.b = [NoBatch EXCEPT !.running = TRUE, !.datasets = datasets,
                                              !.total = Len(datasets)]])

(***************************************************************************)
(* DatasetExtractor (src/parsers/dataset_extractor.py).                    *)
(*                                                                         *)
(* An article page is the sequence of its p/div elements, what each holds  *)
(* that the extractor can see, which of them the data-availability         *)
(* selectors pick, and the hrefs of its supplementary links.  What an      *)
(* element holds is a sequence of items:                                   *)
(*   A_zen  <a href="https://zenodo.org/record/1">Zenodo</a>               *)
(*   A_kw   <a href="https://lab.example.org/files">our data</a>           *)
(*   T_doi  the text  doi:10.5281/zenodo.1                                 *)
(*   T_gse  the text  GSE12345                                             *)
(*   T_acc  the text  accession: ABC123                                    *)
(*   T_url  the text  https://zenodo.org/record/1                          *)
(*   T_doiurl  the text  https://doi.org/10.5281/zenodo.1                  *)
(***************************************************************************)
Items == {"A_zen", "A_kw", "T_doi", "T_gse", "T_acc", "T_url", "T_doiurl"}

Link(href, text) == [href |-> href, text |-> text]
IsAnchor(item) == item \in {"A_zen", "A_kw"}
AnchorOf(item) ==
    IF item = "A_zen" THEN Link("https://zenodo.org/record/1", "Zenodo")
    ELSE Link("https://lab.example.org/files", "our data")

\* element.text: the text of an anchor is its link text.
TextOf(item) ==
    CASE item = "A_zen" -> "Zenodo"
      [] item = "A_kw"  -> "our data"
      [] item = "T_doi" -> "doi:10.5281/zenodo.1"
      [] item = "T_gse" -> "GSE12345"
      [] item = "T_acc" -> "accession: ABC123"
      [] item = "T_doiurl" -> "https://doi.org/10.5281/zenodo.1"
      [] OTHER          -> "https://zenodo.org/record/1"

article_url == "https://www.nature.com/articles/x"
MalformedHref == "http://["
SuppHrefs == {"", "/articles/x/supp1.pdf", "https://zenodo.org/record/1", MalformedHref}

IsAbsolute(href) == href \in {"https://zenodo.org/record/1", "https://lab.example.org/files", MalformedHref}

\* urllib.parse.urljoin: raises ValueError on an href it cannot split.
urljoin_raises(base, href) == href = MalformedHref
urljoin(base, href) ==
    IF IsAbsolute(href) THEN href
    ELSE IF href = "" THEN base
    ELSE "https://www.nature.com/articles/x/supp1.pdf"
netloc(url) ==
    CASE url = "https://lab.example.org/files" -> "lab.example.org"
      [] url = "https://zenodo.org/record/1"  -> "zenodo.org"
      [] OTHER -> "www.nature.com"

\* The keys of DatasetExtractor.data_repositories, in the order of the dict.
data_repositories ==
    <<"figshare", "zenodo", "dryad", "osf", "github", "gene expression omnibus",
      "genbank", "ebi", "neurodata", "neurovault", "openneuro", "brainmaps",
      "allen brain atlas", "human connectome project", "uk biobank", "ncbi",
      "dataverse", "ieee dataport", "kaggle", "harvard dataverse", "crcns",
      "neuromorpho", "huggingface", "codeocean", "mendeley data", "synapse">>

\* The repositories whose pattern is found in a text (case ignored).
PatternsFoundIn(text) ==
    IF text \in {"https://zenodo.org/record/1", "Zenodo", "doi:10.5281/zenodo.1",
                 "https://doi.org/10.5281/zenodo.1"}
    THEN {"zenodo"}
    ELSE {}

None == ""

\* Mutant: the patterns are used up by the first call.
_identify_repository_UsedUp(url, text) ==
    IF classified # <<>> THEN None
    ELSE IF PatternsFoundIn(url) \cup PatternsFoundIn(text) = {} THEN None
    ELSE "zenodo"

_identify_repository(url, text) ==
    LET found == PatternsFoundIn(url) \cup PatternsFoundIn(text)
        hits == {i \in 1..Len(data_repositories) : data_repositories[i] \in found}
    IN  IF hits = {} THEN None
        ELSE data_repositories[CHOOSE i \in hits : \A j \in hits : i <= j]

\* extract_from_html line 134-135 and _extract_from_links line 202.
ParagraphKeyword(text) ==
    text \in {"Zenodo", "our data", "doi:10.5281/zenodo.1", "accession: ABC123",
              "https://zenodo.org/record/1", "https://doi.org/10.5281/zenodo.1"}
LinkTextKeyword(text) == text = "our data"

Dataset(name, url, repository, accession, found_in, source) ==
    [name |-> name, url |-> url, repository |-> repository, accession |-> accession,
     found_in |-> found_in, source |-> source]

RECURSIVE Flatten(_)
Flatten(ss) == IF ss = <<>> THEN <<>> ELSE Head(ss) \o Flatten(Tail(ss))

\* _extract_from_links, the body of the loop for one link.
LinkDataset(link) ==
    IF link.href = "" THEN <<>>
    ELSE IF ~IsAbsolute(link.href) /\ urljoin_raises(article_url, link.href) THEN <<>>
    ELSE LET link_url == IF IsAbsolute(link.href) THEN link.href
                         ELSE urljoin(article_url, link.href)
             repository_name == _identify_repository(link_url, link.text)
         IN  IF repository_name # None
             THEN <<Dataset(IF link.text # "" THEN link.text ELSE "Dataset from repository",
                            link_url, repository_name, None, "link", None)>>
             ELSE IF LinkTextKeyword(link.text)
                  THEN <<Dataset(link.text, link_url, netloc(link_url), None,
                                 "link_text_keyword", None)>>
                  ELSE <<>>

_extract_from_links(links) == Flatten([i \in 1..Len(links) |-> LinkDataset(links[i])])

\* The matches of doi_patterns, accession_patterns and the URL pattern in a
\* piece of text.
DoiDataset(text) ==
    IF text \in {"doi:10.5281/zenodo.1", "https://doi.org/10.5281/zenodo.1"}
    THEN <<Dataset("Dataset DOI: 10.5281/zenodo.1", "https://doi.org/10.5281/zenodo.1",
                   "DOI", None, "text_doi", None)>>
    ELSE <<>>
\* accession_patterns[1]: accession[:\s]+(...)
AccessionWordDataset(text) ==
    IF text = "accession: ABC123"
    THEN <<Dataset("Dataset Accession: ABC123", None, "unknown", "ABC123",
                   "text_accession", None)>>
    ELSE <<>>
\* accession_patterns[4]: GSE..., with the URL of a GEO series
AccessionCodeDataset(text) ==
    IF text = "GSE12345"
    THEN <<Dataset("Dataset Accession: GSE12345",
                   "https://www.ncbi.nlm.nih.gov/geo/query/acc.cgi?acc=GSE12345",
                   "GEO Series", "GSE12345", "text_accession", None)>>
    ELSE <<>>
UrlDataset(text) ==
    IF /\ text \in {"https://zenodo.org/record/1", "https://doi.org/10.5281/zenodo.1"}
       /\ _identify_repository(text, "") # None
    THEN <<Dataset("Dataset from zenodo", text, _identify_repository(text, ""), None,
                   "text_url", None)>>
    ELSE <<>>

\* _extract_from_text: every DOI of the text, then the accessions pattern by
\* pattern, then the URLs.
_extract_from_text(texts) ==
    Flatten([i \in 1..Len(texts) |-> DoiDataset(texts[i])])
        \o Flatten([i \in 1..Len(texts) |-> AccessionWordDataset(texts[i])])
        \o Flatten([i \in 1..Len(texts) |-> AccessionCodeDataset(texts[i])])
        \o Flatten([i \in 1..Len(texts) |-> UrlDataset(texts[i])])

\* Mutant: the tests `if url` and `if accession` left out.
RECURSIVE Dedup_KeepUnidentified(_, _, _)
Dedup_KeepUnidentified(datasets, seen_urls, seen_accessions) ==
    IF datasets = <<>> THEN <<>>
    ELSE LET dataset == Head(datasets)
         IN  IF dataset.url \notin seen_urls
             THEN <<dataset>> \o Dedup_KeepUnidentified(Tail(datasets),
                                                        seen_urls \cup {dataset.url},
                                                        seen_accessions)
             ELSE IF dataset.accession \notin seen_accessions
                  THEN <<dataset>> \o Dedup_KeepUnidentified(
                                          Tail(datasets), seen_urls,
                                          seen_accessions \cup {dataset.accession})
                  ELSE Dedup_KeepUnidentified(Tail(datasets), seen_urls, seen_accessions)

RECURSIVE Dedup(_, _, _)
Dedup(datasets, seen_urls, seen_accessions) ==
    IF datasets = <<>> THEN <<>>
    ELSE LET dataset == Head(datasets)
             url == dataset.url
             accession == dataset.accession
         IN  IF url # None /\ url \notin seen_urls
             THEN <<dataset>> \o Dedup(Tail(datasets), seen_urls \cup {url}, seen_accessions)
             ELSE IF accession # None /\ accession \notin seen_accessions /\ url = None
                  THEN <<dataset>> \o Dedup(Tail(datasets), seen_urls,
                                            seen_accessions \cup {accession})
                  ELSE Dedup(Tail(datasets), seen_urls, seen_accessions)

RECURSIVE Reverse(_)
Reverse(s) == IF s = <<>> THEN <<>> ELSE Append(Reverse(Tail(s)), Head(s))
\* Mutant: of the entries with one url the last is kept.
_deduplicate_datasets_LastSeen(datasets) == Reverse(Dedup(Reverse(datasets), {}, {}))

_deduplicate_datasets(datasets) == Dedup(datasets, {}, {})

NATURE_SELECTORS == {"title", "abstract", "authors", "published_date", "doi", "pdf_link",
                     "supplementary", "data_availability"}
SCIENCE_SELECTORS == {}
CELL_SELECTORS == {}
JournalTypes == {"nature", "science", "cell", "plos"}
SelectorsOf(journal_type) ==
    CASE journal_type = "science" -> SCIENCE_SELECTORS
      [] journal_type = "cell"    -> CELL_SELECTORS
      [] OTHER                    -> NATURE_SELECTORS

Links(element) == [i \in 1..Len(SelectSeq(element, IsAnchor)) |->
                      AnchorOf(SelectSeq(element, IsAnchor)[i])]
Texts(element) == [i \in 1..Len(element) |-> TextOf(element[i])]
ElementDatasets(element) ==
    _extract_from_links(Links(element)) \o _extract_from_text(Texts(element))
HasKeyword(element) == \E i \in 1..Len(element) : ParagraphKeyword(TextOf(element[i]))
KeywordDatasets(element) == IF HasKeyword(element) THEN ElementDatasets(element) ELSE <<>>

\* extract_from_html lines 155-163: the loop over the supplementary links,
\* left at the first href urljoin raises on.
RECURSIVE SuppLoop(_, _, _)
SuppLoop(supp, datasets, journal_type) ==
    IF supp = <<>> THEN [raised |-> FALSE, datasets |-> datasets]
    ELSE LET href == Head(supp)
         IN  IF href = "" THEN SuppLoop(Tail(supp), datasets, journal_type)
             ELSE IF urljoin_raises(article_url, href)
                  THEN [raised |-> TRUE, datasets |-> datasets]
                  ELSE SuppLoop(Tail(supp),
                                Append(datasets,
                                       Dataset("Supplementary Information",
                                               urljoin(article_url, href),
                                               "journal_supplementary", None, None,
                                               journal_type)),
                                journal_type)

Returned(path, datasets) == [returned |-> TRUE, path |-> path, datasets |-> datasets]

extract_from_html(page) ==
    IF page.html_content = "" THEN Returned("empty", <<>>)
    ELSE LET selectors == SelectorsOf(page.journal_type)
         IN  IF "data_availability" \notin selectors
             THEN Returned("exception", <<>>)
             ELSE LET in_section == IF page.section = 0 THEN <<>>
                                    ELSE ElementDatasets(page.elements[page.section])
                      in_paragraphs ==
                          Flatten([i \in 1..Len(page.elements) |->
                                      KeywordDatasets(page.elements[i])])
                      supp_links == IF "supplementary" \in selectors THEN page.supp
                                    ELSE <<>>
                      loop == SuppLoop(supp_links, in_section \o in_paragraphs,
                                       page.journal_type)
                  IN  IF loop.raised
                      THEN Returned("exception", loop.datasets)
                      ELSE Returned("normal", _deduplicate_datasets(loop.datasets))

\* BaseCollector.extract_datasets lines 144-150: the fields of the article
\* added to an entry.
WithPaper(dataset) ==
    [f \in DOMAIN dataset \cup {"paper_url"} |->
        IF f = "paper_url" THEN article_url ELSE dataset[f]]

\* BaseCollector.extract_datasets for an article without a datasets list.
extract_datasets(page, supplementary_url) ==
    LET found == extract_from_html(page).datasets
        datasets == IF found = <<>> /\ supplementary_url # None
                    THEN <<Dataset("Supplementary Materials", supplementary_url,
                                   "journal_supplementary", None, None,
                                   page.journal_type)>>
                    ELSE found
    IN  Returned("collector", [i \in 1..Len(datasets) |-> WithPaper(datasets[i])])

(***************************************************************************)
(* The state machine.                                                      *)
(***************************************************************************)
Urls == {U_web, U_gh, U_zen}
AllUrls == Urls \cup {U_zip, U_fig}
Names == {"dsA"}
RepositoryArgs == {AutoDetect, "figshare", "website"}
R_web == Ref(U_web, "dsA", "website")
R_gh == Ref(U_gh, "dsB", "github")
R_zen == Ref(U_zen, "dsC", "zenodo")
R_nourl == Ref(EmptyUrl, "dsD", "website")
\* download_dataset is reached with a URL only: download_datasets skips a
\* reference without one, the command line requires one.
UrlRefs == {R_web, R_gh, R_zen}
Refs == UrlRefs \cup {R_nourl}
SeqsUpTo(S, n) == UNION {[1..k -> S] : k \in 0..n}

State == [h |-> download_history, f |-> history_file, c |-> call, p |-> pending, b |-> batch]
Becomes(s) ==
    /\ download_history' = s.h
    /\ history_file' = s.f
    /\ call' = s.c
    /\ pending' = s.p
    /\ batch' = s.b

Idle == call.done /\ ~batch.running /\ pending = NoPending

Summary(c) ==
    IF c.op \in {"single", "dataset"} /\ c.by = "user"
    THEN [op |-> c.op, url |-> c.dataset.url, force |-> c.force, ok |-> c.ok]
    ELSE NoPrev

NoPage == [journal_type |-> "none", html_content |-> "", elements |-> <<>>,
           section |-> 0, supp |-> <<>>]
NotReturned == [returned |-> FALSE, path |-> "none", datasets |-> <<>>]
NoExtraction == article = NoPage /\ extracted = NotReturned
NoDedup == [called |-> FALSE, datasets |-> <<>>, unique_datasets |-> <<>>]
NoRetry == [state |-> "idle", attempt |-> 0, answers |-> <<>>]
NoBrowser == [state |-> "idle", variant |-> "none", buttons |-> 0, clicked |-> 0,
              downloads_initiated |-> 0, listing |-> {}, ok |-> FALSE, message |-> ""]
NoCrawl == [called |-> FALSE, given |-> <<>>, papers |-> <<>>, max_datasets |-> 0, data_types |-> <<>>,
            downloader_called |-> FALSE, datasets |-> <<>>]
NoDocument == [kind |-> "absent", members |-> {}]
NoItem == [gen |-> 0, key |-> <<>>, entry |-> "none", outcome |-> "none"]
NoStore == [state |-> "idle", disk |-> NoDocument, found |-> "none", raised |-> FALSE,
            download_history |-> EmptyHistory, gen |-> 0, own |-> {}, item |-> NoItem]
NoLayout == [state |-> "idle", by |-> "none", datasets |-> <<>>, dataset_dir |-> <<>>]
NoCall29 == [op |-> "none", job_id |-> <<"", 0>>, existed |-> FALSE, ok |-> FALSE]
NoScheduler == [jobs |-> <<>>, jobstore |-> {}, last |-> NoCall29]
NoProxy == [built |-> FALSE, lock |-> 0, clock |-> 0, last_update |-> 0,
            working_proxies |-> FALSE, pc |-> <<>>, now |-> <<>>, fetches |-> <<>>,
            skipped |-> {}]
NoSide ==
    /\ store = NoStore
    /\ layout = NoLayout
    /\ scheduler = NoScheduler
    /\ proxy = NoProxy
NoAux ==
    /\ dedup = NoDedup
    /\ classified = <<>>
    /\ retry = NoRetry
    /\ browser = NoBrowser
    /\ crawl = NoCrawl
DownloadIdle ==
    /\ download_history = EmptyHistory
    /\ history_file = EmptyHistory
    /\ call = NoCall
    /\ pending = NoPending
    /\ batch = NoBatch
    /\ prev = NoPrev

Init ==
    /\ NoSide
    /\ download_history = EmptyHistory
    /\ history_file = EmptyHistory
    /\ call = NoCall
    /\ pending = NoPending
    /\ batch = NoBatch
    /\ prev = NoPrev
    /\ NoExtraction
    /\ NoAux

SingleCall(urls) ==
    /\ \E url \in urls, name \in Names, repository \in RepositoryArgs,
          force \in BOOLEAN, use_selenium \in BOOLEAN :
          Becomes(download_single_dataset([State EXCEPT !.b = NoBatch], url, name,
                                          repository, force, use_selenium))
    /\ prev' = Summary(call)
    /\ UNCHANGED <<exvars, auxvars, sidevars>>

CallSingle == Idle /\ SingleCall(Urls)

CallDataset ==
    /\ Idle
    /\ \E dataset \in UrlRefs :
          Becomes(download_dataset(
              [State EXCEPT !.b = NoBatch,
                            !.c = NewCall("dataset", "user", dataset, FALSE, FALSE,
                                          StatusOf(download_history,
                                                   _get_download_id(dataset)))]))
    /\ prev' = Summary(call)
    /\ UNCHANGED <<exvars, auxvars, sidevars>>

CallBatch ==
    /\ Idle
    /\ \E datasets \in SeqsUpTo(Refs, MaxBatch) :
          Becomes(download_datasets(State, datasets))
    /\ prev' = NoPrev
    /\ UNCHANGED <<exvars, auxvars, sidevars>>

Respond ==
    /\ pending # NoPending
    /\ \E r \in Responses :
          LET res == Resume(pending, call.dataset.url, r)
          IN  IF res.kind = "request"
              THEN Becomes([State EXCEPT !.p.pc = res.pc, !.p.attempt = res.attempt,
                                         !.c.requests = @ + 1])
              ELSE Becomes(FinishStrategy(State, res.ok, res.message, r = 200))
    /\ UNCHANGED <<prev, exvars, auxvars, sidevars>>

Next == CallSingle \/ CallDataset \/ Respond

\* Calls of download_single_dataset and download_dataset, one after another,
\* on one DataDownloader that starts without a history file.
Spec == Init /\ [][Next]_vars

(***************************************************************************)
(* One run of the program: the downloader is constructed on a download     *)
(* directory whose history file earlier runs have written, then one        *)
(* operation is called and runs to its return.                             *)
(***************************************************************************)
\* What earlier runs can leave in the history file: per URL a success
\* record, a failed record or none.
Keys == {_get_download_id(d) : d \in UrlRefs}
Histories == UNION {[K -> {"success", "failed"}] : K \in SUBSET Keys}

InitRun ==
    /\ NoSide
    /\ download_history \in Histories
    /\ history_file = download_history
    /\ call = NoCall
    /\ pending = NoPending
    /\ batch = NoBatch
    /\ prev = NoPrev
    /\ NoExtraction
    /\ NoAux

Fresh == call = NoCall /\ batch = NoBatch

RunSingle == Fresh /\ Idle /\ SingleCall(AllUrls)
RunDataset == Fresh /\ CallDataset
RunBatch == Fresh /\ CallBatch

NextRun == RunSingle \/ RunDataset \/ RunBatch \/ Respond

SpecRun == InitRun /\ [][NextRun]_vars

(***************************************************************************)
(* Extraction: extract_from_html applied to an article page.               *)
(***************************************************************************)
Places == {"element1", "element2"}
Placed == (Places \X Items) \cup ({"supp"} \X SuppHrefs)
At(place, html) ==
    LET here(pair) == pair[1] = place
        picked == SelectSeq(html, here)
    IN  [i \in 1..Len(picked) |-> picked[i][2]]

\* The page with the given items and supplementary links, in this order.
Page(journal_type, html, section) ==
    [journal_type |-> journal_type, html_content |-> "html",
     elements |-> <<At("element1", html), At("element2", html)>>,
     section |-> section, supp |-> At("supp", html)]
EmptyPage(journal_type) == [NoPage EXCEPT !.journal_type = journal_type]

Pages == {Page(journal_type, html, section) :
              journal_type \in JournalTypes, html \in SeqsUpTo(Placed, MaxItems),
              section \in 0..2}
         \cup {EmptyPage(journal_type) : journal_type \in JournalTypes}

InitExtract ==
    /\ NoSide
    /\ download_history = EmptyHistory
    /\ history_file = EmptyHistory
    /\ call = NoCall
    /\ pending = NoPending
    /\ batch = NoBatch
    /\ prev = NoPrev
    /\ article \in Pages
    /\ extracted = NotReturned
    /\ NoAux

Extract ==
    /\ ~extracted.returned
    /\ extracted' = extract_from_html(article)
    /\ UNCHANGED <<article, dlvars, auxvars, sidevars>>

NextExtract == Extract
ExtractFromHtml == article # NoPage /\ Extract

SpecExtract == InitExtract /\ [][NextExtract]_vars

(***************************************************************************)
(* Deduplication: _deduplicate_datasets applied to a list of candidate     *)
(* entries.  `pos` is the place of an entry in the list handed in; the     *)
(* code copies the dict of an entry whole.                                 *)
(***************************************************************************)
Candidate(url, accession, found_in) ==
    [name |-> "Dataset", url |-> url, repository |-> "unknown", accession |-> accession,
     found_in |-> found_in, source |-> None, pos |-> 0]
Candidates ==
    {Candidate("https://zenodo.org/record/1", None, "link"),
     Candidate("https://zenodo.org/record/1", None, "text_url"),
     Candidate("https://www.ncbi.nlm.nih.gov/geo/query/acc.cgi?acc=GSE12345", "GSE12345",
               "text_accession"),
     Candidate(None, "GSE12345", "text_accession"),
     Candidate(None, "ABC123", "text_accession"),
     Candidate(None, None, "link")}
Numbered(datasets) == [i \in 1..Len(datasets) |-> [datasets[i] EXCEPT !.pos = i]]

InitDedup ==
    /\ NoSide
    /\ DownloadIdle
    /\ NoExtraction
    /\ \E datasets \in SeqsUpTo(Candidates, MaxCandidates) :
          dedup = [NoDedup EXCEPT !.datasets = Numbered(datasets)]
    /\ classified = <<>>
    /\ retry = NoRetry
    /\ browser = NoBrowser
    /\ crawl = NoCrawl

Deduplicate ==
    /\ ~dedup.called
    /\ dedup' = [dedup EXCEPT !.called = TRUE,
                              !.unique_datasets = _deduplicate_datasets(dedup.datasets)]
    /\ UNCHANGED <<dlvars, exvars, classified, retry, browser, crawl, sidevars>>

NextDedup == Deduplicate

SpecDedup == InitDedup /\ [][NextDedup]_vars

(***************************************************************************)
(* Classification: calls of DatasetExtractor._identify_repository and of   *)
(* DatasetDownloadManager._detect_repository, in any order, before and     *)
(* after an extraction.                                                    *)
(***************************************************************************)
ClassifyUrls == {"https://zenodo.org/record/1", "https://lab.example.org/files",
                 "https://doi.org/10.5281/zenodo.1"}
ClassifyTexts == {"", "Zenodo", "our data"}
DetectUrls == {U_web, U_gh, U_zen, U_fig}
ClassifyPages == {Page("nature", html, 0) : html \in SeqsUpTo(Placed, 1)}
ClassifierCall(fn, args, tag) == [fn |-> fn, args |-> args, tag |-> tag]

InitClassify ==
    /\ NoSide
    /\ DownloadIdle
    /\ article \in ClassifyPages
    /\ extracted = NotReturned
    /\ NoAux

IdentifyRepository ==
    /\ Len(classified) < MaxCalls
    /\ \E url \in ClassifyUrls, text \in ClassifyTexts :
          classified' = Append(classified,
                               ClassifierCall("_identify_repository", <<url, text>>,
                                              _identify_repository(url, text)))
    /\ UNCHANGED <<dlvars, exvars, dedup, retry, browser, crawl, sidevars>>

DetectRepository ==
    /\ Len(classified) < MaxCalls
    /\ \E url \in DetectUrls :
          classified' = Append(classified,
                               ClassifierCall("_detect_repository", <<url>>,
                                              _detect_repository(url)))
    /\ UNCHANGED <<dlvars, exvars, dedup, retry, browser, crawl, sidevars>>

NextClassify == IdentifyRepository \/ DetectRepository \/ ExtractFromHtml

SpecClassify == InitClassify /\ [][NextClassify]_vars

(***************************************************************************)
(* One call of DataDownloader._download_with_retry: a request is sent, the *)
(* answer (a status code, or 0 for a requests.RequestException such as a   *)
(* timeout) is handled, and so on until the call returns.                  *)
(***************************************************************************)
RetryResponses == {200, 404, 429, 503, 0}

InitRetry ==
    /\ NoSide
    /\ DownloadIdle
    /\ NoExtraction
    /\ NoAux

CallRetry ==
    /\ retry.state = "idle"
    /\ retry' = [retry EXCEPT !.state = "running"]
    /\ UNCHANGED <<dlvars, exvars, dedup, classified, browser, crawl, sidevars>>

AnswerRetry ==
    /\ retry.state = "running"
    /\ \E r \in RetryResponses :
          LET next == _download_with_retry(retry.attempt, r)
          IN  retry' = [state |-> IF next = "again" THEN "running" ELSE next,
                        attempt |-> IF next = "again" THEN retry.attempt + 1
                                    ELSE retry.attempt,
                        answers |-> Append(retry.answers, r)]
    /\ UNCHANGED <<dlvars, exvars, dedup, classified, browser, crawl, sidevars>>

NextRetry == CallRetry \/ AnswerRetry

SpecRetry == InitRetry /\ [][NextRetry]_vars

\* requests.get is called with a timeout, so every request is answered.
SpecRetryFair == SpecRetry /\ WF_vars(AnswerRetry)

(***************************************************************************)
(* The browser strategy: DatasetDownloadManager._download_with_selenium    *)
(* ("manager") and FigshareDownloader.download_with_selenium ("figshare"). *)
(* The page is opened and its source and a screenshot are saved, the       *)
(* download controls found are clicked, and after the wait the download    *)
(* directory is listed.  What the page shows, whether a click raises and   *)
(* what the directory holds after the wait are the environment's.          *)
(***************************************************************************)
MaxButtons == 4
max_clicks == 3

Variants == {"manager", "figshare"}
SavedFiles == {"page_source.html", "screenshot.png"}
PartialFile == "data.zip.crdownload"
CompleteFile == "data.csv"
Listings == {SavedFiles \cup fs : fs \in SUBSET {PartialFile, CompleteFile}}

endswith_crdownload(f) == f = PartialFile

Min(a, b) == IF a < b THEN a ELSE b

BrowserResult(ok, message) == [ok |-> ok, message |-> message]

\* _download_with_selenium lines 600-613, once downloads_initiated > 0.
_download_with_selenium(listing) ==
    LET files == {f \in listing : f \notin SavedFiles /\ ~endswith_crdownload(f)}
    IN  IF files # {} THEN BrowserResult(TRUE, "files_downloaded")
        ELSE BrowserResult(TRUE, "started_no_complete_file")

\* download_with_selenium lines 269-281.
download_with_selenium(listing, downloads_initiated) ==
    LET files == {f \in listing : f \notin SavedFiles}
        complete_files == {f \in files : ~endswith_crdownload(f)}
    IN  IF complete_files # {} THEN BrowserResult(TRUE, "files_downloaded")
        ELSE IF downloads_initiated > 0 THEN BrowserResult(TRUE, "started_maybe_incomplete")
        ELSE BrowserResult(FALSE, "nothing_downloaded")

BrowserReturn(b, result) ==
    [b EXCEPT !.state = "returned", !.ok = result.ok, !.message = result.message]

InitBrowser ==
    /\ NoSide
    /\ DownloadIdle
    /\ NoExtraction
    /\ NoAux

\* The page is loaded (or the driver raises) and the controls are looked up.
OpenPage ==
    /\ browser.state = "idle"
    /\ \E variant \in Variants, raises \in BOOLEAN :
       \E buttons \in IF raises THEN {0} ELSE 0..MaxButtons :
          LET b == [browser EXCEPT !.variant = variant, !.buttons = buttons,
                                   !.listing = IF raises THEN {} ELSE SavedFiles]
          IN  browser' = IF raises
                         THEN BrowserReturn(b, BrowserResult(FALSE, "browser_error"))
                         ELSE IF buttons = 0
                         THEN BrowserReturn(b, BrowserResult(FALSE, "no_buttons"))
                         ELSE [b EXCEPT !.state = "clicking"]
    /\ UNCHANGED <<dlvars, exvars, dedup, classified, retry, crawl, sidevars>>

\* One pass of the loop over download_buttons[:3]: click() returns or raises.
Click ==
    /\ browser.state = "clicking"
    /\ \E raises \in BOOLEAN :
          LET b == [browser EXCEPT !.clicked = @ + 1,
                                   !.downloads_initiated = IF raises THEN @ ELSE @ + 1]
          IN  browser' =
                IF b.clicked < Min(b.buttons, max_clicks) THEN b
                ELSE IF b.variant = "manager" /\ b.downloads_initiated = 0
                THEN BrowserReturn(b, BrowserResult(FALSE, "no_click_succeeded"))
                ELSE [b EXCEPT !.state = "waiting"]
    /\ UNCHANGED <<dlvars, exvars, dedup, classified, retry, crawl, sidevars>>

\* The wait is over: os.listdir(download_dir) and the return.
ListDir ==
    /\ browser.state = "waiting"
    /\ \E listing \in Listings :
          LET b == [browser EXCEPT !.listing = listing]
          IN  browser' = BrowserReturn(b,
                 IF b.variant = "manager" THEN _download_with_selenium(listing)
                 ELSE download_with_selenium(listing, b.downloads_initiated))
    /\ UNCHANGED <<dlvars, exvars, dedup, classified, retry, crawl, sidevars>>

NextBrowser == OpenPage \/ Click \/ ListDir

SpecBrowser == InitBrowser /\ [][NextBrowser]_vars

(***************************************************************************)
(* DatasetDownloadManager.download_datasets_from_crawler_results: the      *)
(* references of the papers are collected, filtered by data type, capped,  *)
(* and the list is handed to DataDownloader.download_datasets.  A paper is *)
(* its list of references; pos numbers the references of the input.        *)
(***************************************************************************)
MaxPapers == 2
MaxPaperDatasets == 2
MaxCap == 2

data_type_mapping ==
    [neuron_imaging |-> <<"neuron_imaging", "neural_imaging", "brain_imaging", "microscopy">>,
     reconstruction |-> <<"reconstruction", "connectomics", "morphology", "connectivity">>,
     spatial_transcriptomics |-> <<"spatial_transcriptomics", "transcriptomics",
                                   "gene_expression">>,
     mri |-> <<"mri", "fmri", "magnetic_resonance", "diffusion_imaging",
               "structural_imaging">>,
     electrophysiology |-> <<"electrophysiology", "ephys", "patch_clamp", "eeg", "ecog",
                             "spike_sorting">>]

\* `data_type.lower() in combined_text` for the names of the model.
InText(data_type, combined_text) ==
    combined_text = " fmri recordings" /\ data_type \in {"mri", "fmri"}

CrawlRef(name, data_types) ==
    [name |-> name, description |-> "", data_types |-> data_types, pos |-> 0, paper |-> 0]
CrawlRefs ==
    {CrawlRef("Dataset A", <<"mri">>), CrawlRef("Dataset B", <<"fmri">>),
     CrawlRef("Dataset C", <<"histology">>), CrawlRef("fmri recordings", <<>>),
     CrawlRef("Dataset", <<>>)}
\* args.data_type; <<>> stands for None or an empty list
RequestedTypes == {<<>>, <<"mri">>, <<"fmri">>, <<"behavioral">>}
\* args.download_max; 0 stands for None or 0
Caps == 0..MaxCap
PaperLists == SeqsUpTo(SeqsUpTo(CrawlRefs, MaxPaperDatasets), MaxPapers)
NumberedPapers(papers) ==
    [p \in 1..Len(papers) |->
        [i \in 1..Len(papers[p]) |->
            [papers[p][i] EXCEPT !.pos = MaxPaperDatasets * (p - 1) + i]]]

\* lines 71-78: the references of all papers, each with its paper's data
Annotated(papers) ==
    [p \in 1..Len(papers) |->
        [i \in 1..Len(papers[p]) |-> [papers[p][i] EXCEPT !.paper = p]]]
PaperDatasets(papers) == Flatten(Annotated(papers))

\* lines 90-94
expanded_types(data_types) ==
    Flatten([i \in 1..Len(data_types) |->
                IF data_types[i] \in DOMAIN data_type_mapping
                THEN data_type_mapping[data_types[i]]
                ELSE <<data_types[i]>>])

\* lines 97-108: does the filter keep `dataset`
Kept(dataset, expanded) ==
    IF dataset.data_types = <<>>
    THEN \E k \in 1..Len(expanded) :
            InText(expanded[k], dataset.description \o " " \o dataset.name)
    ELSE \E k \in 1..Len(expanded), j \in 1..Len(dataset.data_types) :
            expanded[k] = dataset.data_types[j]

\* lines 85-110
Filtered(datasets, data_types) ==
    IF data_types = <<>> THEN datasets
    ELSE LET Keep(dataset) == Kept(dataset, expanded_types(data_types))
         IN  SelectSeq(datasets, Keep)

\* lines 114-115
Capped(datasets, max_datasets) ==
    IF max_datasets # 0 /\ Len(datasets) > max_datasets
    THEN SubSeq(datasets, 1, max_datasets)
    ELSE datasets

Handed(downloader_called, datasets) ==
    [downloader_called |-> downloader_called, datasets |-> datasets]

\* Mutant: the cap is applied before the filter.
download_datasets_from_crawler_results_CapFirst(papers, max_datasets, data_types) ==
    IF papers = <<>> \/ PaperDatasets(papers) = <<>> THEN Handed(FALSE, <<>>)
    ELSE Handed(TRUE, Filtered(Capped(PaperDatasets(papers), max_datasets), data_types))

download_datasets_from_crawler_results(papers, max_datasets, data_types) ==
    IF papers = <<>> THEN Handed(FALSE, <<>>)
    ELSE LET datasets == PaperDatasets(papers)
         IN  IF datasets = <<>> THEN Handed(FALSE, <<>>)
             ELSE Handed(TRUE, Capped(Filtered(datasets, data_types), max_datasets))

InitCrawl ==
    /\ NoSide
    /\ DownloadIdle
    /\ NoExtraction
    /\ dedup = NoDedup
    /\ classified = <<>>
    /\ retry = NoRetry
    /\ browser = NoBrowser
    /\ \E papers \in PaperLists, max_datasets \in Caps, data_types \in RequestedTypes :
          crawl = [NoCrawl EXCEPT !.given = NumberedPapers(papers),
                                  !.papers = NumberedPapers(papers),
                                  !.max_datasets = max_datasets,
                                  !.data_types = data_types]

\* The call, up to the list it hands to self.downloader.download_datasets
\* (whose loop is BatchLoop).  The dataset dicts of the papers are written
\* in place (lines 74-77); `given` keeps them as they were passed in.
DownloadFromCrawlerResults ==
    /\ ~crawl.called
    /\ LET r == download_datasets_from_crawler_results(crawl.papers, crawl.max_datasets,
                                                       crawl.data_types)
       IN  crawl' = [crawl EXCEPT !.called = TRUE,
                                  !.papers = Annotated(@),
                                  !.downloader_called = r.downloader_called,
                                  !.datasets = r.datasets]
    /\ UNCHANGED <<dlvars, exvars, dedup, classified, retry, browser, sidevars>>

NextCrawl == DownloadFromCrawlerResults

SpecCrawl == InitCrawl /\ [][NextCrawl]_vars

(***************************************************************************)
(* The history store across runs.  download_history.json is absent,        *)
(* unreadable (open raises), corrupt (json.load raises) or a JSON object,  *)
(* held as the set of its members.  A run constructs a DataDownloader on   *)
(* the directory, works through references of a non-forced batch (the      *)
(* outcome of a download is the environment's) and ends.                   *)
(***************************************************************************)
MaxRuns == 2

Document(kind, members) == [kind |-> kind, members |-> members]

\* Mutant: an empty object is written whatever the history holds.
json_dump_Empty(h) == Document("json", {})

\* json.dump(self.download_history, f): one member per key
json_dump(h) == Document("json", {<<k, h[k]>> : k \in DOMAIN h})

\* json.load(f) of a JSON object
json_load(document) ==
    [k \in {m[1] : m \in document.members} |->
        (CHOOSE m \in document.members : m[1] = k)[2]]

Loaded(h, raised) == [download_history |-> h, raised |-> raised]

\* Mutant: the exceptions of open and json.load are not caught.
_load_download_history_NoCatch(document) ==
    IF document.kind = "absent" THEN Loaded(EmptyHistory, FALSE)
    ELSE IF document.kind = "json" THEN Loaded(json_load(document), FALSE)
    ELSE Loaded(EmptyHistory, TRUE)

_load_download_history(document) ==
    IF document.kind = "absent" THEN Loaded(EmptyHistory, FALSE)
    ELSE IF document.kind \in {"unreadable", "corrupt"} THEN Loaded(EmptyHistory, FALSE)
    ELSE Loaded(json_load(document), FALSE)

\* _save_download_history on the disk: open(..., 'w') raises on a file the
\* process may not open, and the exception is logged.
SavedOn(document, h) ==
    IF document.kind = "unreadable" THEN document ELSE json_dump(h)

Documents ==
    {Document("absent", {}), Document("unreadable", {}), Document("corrupt", {})}
        \cup {json_dump(h) : h \in Histories}

InitStore ==
    /\ DownloadIdle
    /\ NoExtraction
    /\ NoAux
    /\ layout = NoLayout /\ scheduler = NoScheduler /\ proxy = NoProxy
    /\ \E document \in Documents : store = [NoStore EXCEPT !.disk = document]

\* DataDownloader(config) on the download directory.
Construct ==
    /\ store.state = "idle"
    /\ store.gen < MaxRuns
    /\ LET l == _load_download_history(store.disk)
       IN  store' = [store EXCEPT !.state = IF l.raised THEN "idle" ELSE "built",
                                  !.found = store.disk.kind,
                                  !.raised = l.raised,
                                  !.download_history = l.download_history,
                                  !.gen = @ + 1, !.own = {}, !.item = NoItem]
    /\ UNCHANGED <<dlvars, exvars, auxvars, layout, scheduler, proxy>>

\* One reference of a non-forced batch: skipped when the history says it
\* is downloaded, else downloaded, recorded and the history saved.
BatchItem ==
    /\ store.state = "built"
    /\ \E d \in UrlRefs, ok \in BOOLEAN :
          LET k == _get_download_id(d)
              h == store.download_history
              i == [gen |-> store.gen, key |-> k, entry |-> StatusOf(h, k),
                    outcome |-> "skipped"]
          IN  IF is_dataset_downloaded(h, d)
              THEN store' = [store EXCEPT !.item = i]
              ELSE LET g == Put(h, k, IF ok THEN "success" ELSE "failed")
                   IN  store' = [store EXCEPT
                          !.item = [i EXCEPT !.outcome = IF ok THEN "success" ELSE "failed"],
                          !.download_history = g,
                          !.own = @ \cup {k},
                          !.disk = SavedOn(@, g)]
    /\ UNCHANGED <<dlvars, exvars, auxvars, layout, scheduler, proxy>>

\* The process ends; the file stays.
Exit ==
    /\ store.state = "built"
    /\ store' = [store EXCEPT !.state = "idle", !.download_history = EmptyHistory]
    /\ UNCHANGED <<dlvars, exvars, auxvars, layout, scheduler, proxy>>

NextStore == Construct \/ BatchItem \/ Exit

SpecStore == InitStore /\ [][NextStore]_vars

(***************************************************************************)
(* Output directories.  A file name is a sequence of runs [ch, n], n      *)
(* copies of the character ch, so that names longer than max_length can be *)
(* written down; Text merges adjacent runs of one character, so that two   *)
(* names are the same string exactly when their Text is equal.  The names  *)
(* of the model hold no '.', so os.path.splitext finds no extension.       *)
(***************************************************************************)
MaxLayout == 2
max_length == 100

Run(ch, n) == [ch |-> ch, n |-> n]
illegal_chars == {"<", ">", ":", "\"", "/", "\\", "|", "?", "*"}

RECURSIVE Length(_)
Length(filename) ==
    IF filename = <<>> THEN 0 ELSE Head(filename).n + Length(Tail(filename))

RECURSIVE Text(_)
Text(filename) ==
    IF Len(filename) <= 1 THEN filename
    ELSE IF filename[1].n = 0 THEN Text(Tail(filename))
    ELSE IF filename[1].ch = filename[2].ch
         THEN Text(<<Run(filename[1].ch, filename[1].n + filename[2].n)>>
                   \o SubSeq(filename, 3, Len(filename)))
         ELSE <<filename[1]>> \o Text(Tail(filename))

\* filename[:m]
RECURSIVE Truncated(_, _)
Truncated(filename, m) ==
    IF filename = <<>> \/ m = 0 THEN <<>>
    ELSE IF Head(filename).n >= m THEN <<Run(Head(filename).ch, m)>>
    ELSE <<Head(filename)>> \o Truncated(Tail(filename), m - Head(filename).n)

\* DataDownloader._sanitize_filename and DatasetDownloadManager._sanitize_filename
\* (the same on a name without extension)
_sanitize_filename(filename) ==
    LET replaced == [i \in 1..Len(filename) |->
                        IF filename[i].ch \in illegal_chars
                        THEN Run("_", filename[i].n) ELSE filename[i]]
    IN  Text(IF Length(replaced) > max_length THEN Truncated(replaced, max_length)
             ELSE replaced)

\* download_dataset line 128 / download_single_dataset lines 228-229
DatasetDir(by, dataset) ==
    IF by = "download_dataset"
    THEN _sanitize_filename(dataset.repository \o <<Run("_", 1)>> \o dataset.name)
    ELSE _sanitize_filename(dataset.name)

LayoutNames ==
    {<<Run("d", 1)>>, <<Run("d", 1), Run("/", 1), Run("e", 1)>>,
     <<Run("d", 1), Run(":", 1), Run("e", 1)>>,
     <<Run("x", max_length), Run("a", 1)>>, <<Run("x", max_length), Run("b", 1)>>}
LayoutRepositories == {<<Run("z", 1)>>, <<Run("f", 1)>>}
LayoutRefs ==
    {[url |-> u, name |-> n, repository |-> r] :
        u \in {U_web, U_zen, U_gh}, n \in LayoutNames, r \in LayoutRepositories}

InitLayout ==
    /\ DownloadIdle
    /\ NoExtraction
    /\ NoAux
    /\ store = NoStore /\ scheduler = NoScheduler /\ proxy = NoProxy
    /\ \E datasets \in [1..MaxLayout -> LayoutRefs],
          by \in {"download_dataset", "download_single_dataset"} :
          layout = [NoLayout EXCEPT !.by = by, !.datasets = datasets]

\* The directories the downloads of the references are given.
AssignDirectories ==
    /\ layout.state = "idle"
    /\ layout' = [layout EXCEPT
          !.state = "assigned",
          !.dataset_dir = [i \in 1..Len(layout.datasets) |->
                              DatasetDir(layout.by, layout.datasets[i])]]
    /\ UNCHANGED <<dlvars, exvars, auxvars, store, scheduler, proxy>>

NextLayout == AssignDirectories

SpecLayout == InitLayout /\ [][NextLayout]_vars

(***************************************************************************)
(* Scheduler (src/scheduler.py): self.jobs is the list of the jobs added,  *)
(* jobstore the ids the APScheduler job store holds (add_job is called     *)
(* with replace_existing=True).  A job id is a pair: <<"job_", n>> is the  *)
(* string job_n, <<"crawl", 0>> an id the caller chose.                    *)
(***************************************************************************)
MaxJobs == 3

DefaultId(jobs) == <<"job_", Len(jobs) + 1>>
ExplicitIds == {<<"crawl", 0>>, <<"job_", 2>>}
JobIds == ExplicitIds \cup {<<"job_", n>> : n \in 1..MaxJobs}

\* Scheduler.add_job from `job_id = job_id or ...` on
add_job(s, job_id) ==
    [jobs |-> Append(s.jobs, job_id),
     jobstore |-> s.jobstore \cup {job_id},
     last |-> [op |-> "add_job", job_id |-> job_id,
               existed |-> job_id \in s.jobstore, ok |-> TRUE]]

\* Scheduler.remove_job: the job store raises JobLookupError for an id it
\* does not hold.
remove_job(s, job_id) ==
    IF job_id \notin s.jobstore
    THEN [s EXCEPT !.last = [op |-> "remove_job", job_id |-> job_id,
                             existed |-> FALSE, ok |-> FALSE]]
    ELSE LET Other(id) == id # job_id
         IN  [jobs |-> SelectSeq(s.jobs, Other),
              jobstore |-> s.jobstore \ {job_id},
              last |-> [op |-> "remove_job", job_id |-> job_id,
                        existed |-> TRUE, ok |-> TRUE]]

InitScheduler ==
    /\ DownloadIdle
    /\ NoExtraction
    /\ NoAux
    /\ NoSide

AddJob ==
    /\ Len(scheduler.jobs) < MaxJobs
    /\ scheduler' = [add_job(scheduler, DefaultId(scheduler.jobs))
                       EXCEPT !.last.op = "add_job_default"]
    /\ UNCHANGED <<dlvars, exvars, auxvars, store, layout, proxy>>

AddJobWithId ==
    /\ Len(scheduler.jobs) < MaxJobs
    /\ \E job_id \in ExplicitIds : scheduler' = add_job(scheduler, job_id)
    /\ UNCHANGED <<dlvars, exvars, auxvars, store, layout, proxy>>

RemoveJob ==
    /\ scheduler.jobstore # {}
    /\ \E job_id \in JobIds : scheduler' = remove_job(scheduler, job_id)
    /\ UNCHANGED <<dlvars, exvars, auxvars, store, layout, proxy>>

NextScheduler == AddJob \/ AddJobWithId \/ RemoveJob

SpecScheduler == InitScheduler /\ [][NextScheduler]_vars

(***************************************************************************)
(* ProxyManager (src/utils/proxy_manager.py) called by several threads.    *)
(* clock is time.time() in units of the model, counted from a start later  *)
(* than one update interval after the epoch; working_proxies tells whether *)
(* the list of working proxies is non-empty; lock is the thread holding    *)
(* self.lock (0: none); fetches lists the refreshes: the thread, the time  *)
(* `now` it read, and what its validation found; skipped holds the threads *)
(* whose update_proxies returned without fetching.                         *)
(***************************************************************************)
MaxThreads == 2
MaxTime == 6
MaxFetches == 3
update_interval == 2
StartTime == update_interval + 1

Threads == 1..MaxThreads

\* Mutant: the list is never taken to be fresh.
ListFresh_Never(now, last_update, working_proxies) == FALSE

\* update_proxies line 39
ListFresh(now, last_update, working_proxies) ==
    now - last_update < update_interval /\ working_proxies

\* get_proxy line 191
ListStale(now, last_update, working_proxies) ==
    ~working_proxies \/ now - last_update > update_interval

InitProxy ==
    /\ DownloadIdle
    /\ NoExtraction
    /\ NoAux
    /\ store = NoStore /\ layout = NoLayout /\ scheduler = NoScheduler
    /\ \E auto_init \in BOOLEAN, found \in BOOLEAN :
          proxy = [built |-> TRUE, lock |-> 0, clock |-> StartTime,
                   last_update |-> IF auto_init THEN StartTime ELSE 0,
                   working_proxies |-> auto_init /\ found,
                   pc |-> [t \in Threads |-> "idle"],
                   now |-> [t \in Threads |-> 0],
                   fetches |-> <<>>, skipped |-> {}]

Tick ==
    /\ proxy.built /\ proxy.clock < MaxTime
    /\ proxy' = [proxy EXCEPT !.clock = @ + 1]
    /\ UNCHANGED <<dlvars, exvars, auxvars, store, layout, scheduler>>

\* get_proxy up to the call of update_proxies (line 191-192).
GetProxy ==
    /\ proxy.built
    /\ \E t \in Threads :
          /\ proxy.pc[t] = "idle"
          /\ ListStale(proxy.clock, proxy.last_update, proxy.working_proxies)
          /\ proxy' = [proxy EXCEPT !.pc[t] = "update_proxies"]
    /\ UNCHANGED <<dlvars, exvars, auxvars, store, layout, scheduler>>

\* update_proxies: `with self.lock`, now = time.time(), and the test of
\* line 39; a fresh list ends the call, else the sources are fetched.
Enter ==
    /\ proxy.built
    /\ \/ ListFresh(proxy.clock, proxy.last_update, proxy.working_proxies)
       \/ Len(proxy.fetches) < MaxFetches
    /\ \E t \in Threads :
          /\ proxy.pc[t] = "update_proxies"
          /\ proxy.lock = 0
          /\ proxy' =
                IF ListFresh(proxy.clock, proxy.last_update, proxy.working_proxies)
                THEN [proxy EXCEPT !.pc[t] = "idle", !.skipped = @ \cup {t}]
                ELSE [proxy EXCEPT !.pc[t] = "fetching", !.lock = t,
                                   !.now[t] = proxy.clock,
                                   !.fetches = Append(@, [thread |-> t, now |-> proxy.clock,
                                                          found |-> "running"])]
    /\ UNCHANGED <<dlvars, exvars, auxvars, store, layout, scheduler>>

\* The sources are fetched and validated; lines 56-58 and the release.
Validated ==
    /\ proxy.built
    /\ \E t \in Threads, found \in BOOLEAN :
          /\ proxy.pc[t] = "fetching"
          /\ proxy' = [proxy EXCEPT
                !.pc[t] = "idle", !.lock = 0,
                !.working_proxies = found,
                !.last_update = proxy.now[t],
                !.fetches[Len(proxy.fetches)].found = IF found THEN "some" ELSE "none"]
    /\ UNCHANGED <<dlvars, exvars, auxvars, store, layout, scheduler>>

NextProxy == Tick \/ GetProxy \/ Enter \/ Validated

SpecProxy == InitProxy /\ [][NextProxy]_vars

(***************************************************************************)
(* The references the extraction side hands out: extract_from_html,        *)
(* BaseCollector.extract_datasets (first on an article, then again on the  *)
(* article that carries the list found), and _deduplicate_datasets.        *)
(***************************************************************************)
SupplementaryUrls == {None, "https://www.nature.com/articles/x/supp1.pdf"}

ExtractDatasets ==
    /\ ~extracted.returned /\ article # NoPage
    /\ \E supplementary_url \in SupplementaryUrls :
          extracted' = extract_datasets(article, supplementary_url)
    /\ UNCHANGED <<article, dlvars, auxvars, sidevars>>

\* extract_datasets lines 109-110 on an article that collect_papers (line
\* 193) gave the list found.
ExtractDatasetsAgain ==
    /\ extracted.returned /\ extracted.path = "collector"
    /\ extracted.datasets # <<>>
    /\ extracted' = Returned("article", extracted.datasets)
    /\ UNCHANGED <<article, dlvars, auxvars, sidevars>>

DeduplicateCandidates == article = NoPage /\ Deduplicate

InitReferences ==
    \/ InitExtract
    \/ InitDedup

NextReferences ==
    ExtractFromHtml \/ ExtractDatasets \/ ExtractDatasetsAgain \/ DeduplicateCandidates

SpecReferences == InitReferences /\ [][NextReferences]_vars

(***************************************************************************)
(* Properties of the download side.                                        *)
(***************************************************************************)
CallKey == _get_download_id(call.dataset)
UserCallDone == call.op \in {"single", "dataset"} /\ call.by = "user" /\ call.done
SomeStrategySucceeded == \E i \in 1..Len(call.trace) : call.trace[i].ok
EveryStrategyFailed ==
    Len(call.trace) >= 1 /\ \A i \in 1..Len(call.trace) : ~call.trace[i].ok
CountOf(outcomes) == Cardinality({i \in 1..Len(batch.log) : batch.log[i].outcome \in outcomes})

\* C1 (as claimed): when the preceding non-forced download of a reference
\* with a URL succeeded, a non-forced download of the same reference runs no
\* strategy, sends no request, reports "already downloaded", and the success
\* record is still in the history.
C1_SecondCallSkips ==
    (/\ UserCallDone /\ ~call.force /\ call.dataset.url # EmptyUrl
     /\ prev.op # "none" /\ prev.url = call.dataset.url /\ ~prev.force /\ prev.ok)
    => /\ call.trace = <<>>
       /\ call.requests = 0
       /\ call.ok /\ call.message = "already_downloaded"
       /\ StatusOf(download_history, CallKey) = "success"

\* C2 (as claimed): download_single_dataset with force=True runs a strategy,
\* with network I/O, also when the history holds a success record for the
\* reference, whatever the repository tag.
C2_ForceIgnoresHistory ==
    (call.op = "single" /\ call.done /\ call.force /\ call.entry = "success")
    => Len(call.trace) >= 1 /\ call.requests >= 1

\* C3 (as claimed): in download_single_dataset, once a strategy has reported
\* success the call has returned success and no further strategy is run or
\* running.
C3_StopAtFirstSuccess ==
    (call.op = "single" /\ SomeStrategySucceeded)
    => /\ call.done /\ call.ok /\ pending = NoPending
       /\ \A i \in 1..Len(call.trace) : call.trace[i].ok => i = Len(call.trace)

\* C4 (as claimed): when a strategy has succeeded during a single-reference
\* download, the call returns success and the history holds a success
\* record under the reference's key.
C4_SuccessPersisted ==
    (UserCallDone /\ SomeStrategySucceeded)
    => call.ok /\ StatusOf(download_history, CallKey) = "success"

\* C5 (as claimed): when every strategy fails the download returns an error
\* and the history, in memory and in the file, is as it was for the key.
C5_NoRecordOnFailure ==
    (call.op # "none" /\ call.done /\ EveryStrategyFailed)
    => /\ ~call.ok
       /\ StatusOf(download_history, CallKey) = call.entry
       /\ StatusOf(history_file, CallKey) = call.entry

\* C5 (amended): when every strategy fails, and the call is not answered
\* from a success record of the history, the download returns an error and
\* the history, in memory and in the file, holds a record with status
\* "failed" under the key (never a success record).
C5_FailedRecordOnFailure ==
    (/\ call.op # "none" /\ call.done /\ EveryStrategyFailed
     /\ call.message # "already_downloaded")
    => /\ ~call.ok
       /\ StatusOf(download_history, CallKey) = "failed"
       /\ StatusOf(history_file, CallKey) = "failed"

C5_Witness ==
    /\ call.op # "none" /\ call.done /\ EveryStrategyFailed /\ call.requests >= 1
    /\ call.entry = "none"
    /\ StatusOf(history_file, CallKey) = "failed"

\* C6: a reference whose history record is "failed" is downloaded again by a
\* non-forced call, single or in a batch: a strategy runs, and the reference
\* is not reported as skipped or already downloaded.
C6_FailedStaysRetryable ==
    /\ (call.op # "none" /\ call.done /\ ~call.force /\ call.entry = "failed")
       => /\ Len(call.trace) >= 1 /\ call.requests >= 1
          /\ call.message # "already_downloaded"
    /\ \A i \in 1..Len(batch.log) :
          batch.log[i].entry = "failed"
          => batch.log[i].outcome \in {"success", "failed"} /\ batch.log[i].ran >= 1

C6_Witness ==
    /\ batch.returned
    /\ \E i, j \in 1..Len(batch.log) :
          /\ i < j /\ batch.datasets[i] = batch.datasets[j]
          /\ batch.log[i].outcome = "failed"
          /\ batch.log[j].entry = "failed" /\ batch.log[j].ran >= 1

\* C7: a single-reference download of a URL of type "webpage" with no
\* special handler sends at most one request (the page fetch), succeeds
\* through the webpage archival when that fetch answers 200, and fails only
\* when the fetch did not answer 200.
C7_FallbackCompleteness ==
    (/\ call.op = "single"
     /\ _determine_url_type(call.dataset.url) = "webpage"
     /\ call.dataset.repository \notin special_downloaders)
    => /\ call.requests <= 1
       /\ (\E i \in 1..Len(call.trace) : call.trace[i].got200)
          => /\ call.ok /\ call.message = "webpage_and_metadata_saved"
             /\ call.trace[Len(call.trace)].strategy = "webpage"
       /\ (call.done /\ ~call.ok)
          => /\ Len(call.trace) = 1 /\ call.trace[1].strategy = "webpage"
             /\ ~call.trace[1].got200

C7_Witness ==
    /\ call.op = "single" /\ call.done /\ call.ok
    /\ _determine_url_type(call.dataset.url) = "webpage"
    /\ call.dataset.repository \notin special_downloaders
    /\ Len(call.trace) = 1 /\ call.trace[1].got200

\* C8: download_datasets returns total = number of references and
\* success + failed + skipped = total; every reference is processed, and
\* each counter is the number of references with that outcome.
C8_BatchCounts ==
    batch.returned
    => /\ batch.total = Len(batch.datasets)
       /\ batch.success_count + batch.failed_count + batch.skipped_count = batch.total
       /\ Len(batch.log) = batch.total
       /\ batch.success_count = CountOf({"success"})
       /\ batch.failed_count = CountOf({"failed"})
       /\ batch.skipped_count = CountOf({"skipped_no_url", "skipped_exists"})

C8_Witness ==
    /\ batch.returned /\ batch.total = 3
    /\ batch.success_count = 2 /\ batch.failed_count = 1
    /\ batch.log[1].outcome = "failed"

\* C9 (as claimed): the details of download_datasets hold one entry per
\* input reference, the i-th entry describing the i-th reference.
C9_DetailsPerInput ==
    batch.returned
    => /\ Len(batch.details) = Len(batch.datasets)
       /\ \A i \in 1..Len(batch.details) :
             i <= Len(batch.datasets)
             => /\ batch.details[i].dataset = batch.datasets[i].name
                /\ batch.details[i].repository = batch.datasets[i].repository

(***************************************************************************)
(* Properties of the extraction side.                                      *)
(***************************************************************************)
\* C10 (as claimed): in the list extract_from_html returns, on every return
\* path, no two entries have the same non-empty url and no two entries
\* without url have the same accession.
C10_ReturnedListHasNoDuplicates ==
    extracted.returned
    => \A i, j \in 1..Len(extracted.datasets) :
          i # j
          => LET a == extracted.datasets[i]
                 b == extracted.datasets[j]
             IN  /\ a.url # None => a.url # b.url
                 /\ (a.url = None /\ b.url = None /\ a.accession # None)
                    => a.accession # b.accession


\* C11: _deduplicate_datasets returns a subsequence of its input (relative
\* order kept); for each url of the input the entry kept is the earliest
\* entry with that url, and for each accession of an entry without url the
\* entry kept is the earliest entry without url with that accession.
C11_FirstSeenWins ==
    dedup.called
    => LET input == dedup.datasets
           output == dedup.unique_datasets
       IN  /\ \A k \in 1..Len(output) :
                 /\ output[k].pos \in 1..Len(input)
                 /\ output[k] = input[output[k].pos]
                 /\ k > 1 => output[k - 1].pos < output[k].pos
           /\ \A i \in 1..Len(input) :
                 input[i].url # None
                 => \E k \in 1..Len(output) :
                       /\ output[k].url = input[i].url
                       /\ output[k].pos <= i
                       /\ \A j \in 1..Len(output) : output[j].url = input[i].url => j = k
           /\ \A i \in 1..Len(input) :
                 (input[i].url = None /\ input[i].accession # None)
                 => \E k \in 1..Len(output) :
                       /\ output[k].url = None
                       /\ output[k].accession = input[i].accession
                       /\ output[k].pos <= i
                       /\ \A j \in 1..Len(output) :
                             (output[j].url = None
                              /\ output[j].accession = input[i].accession) => j = k

C11_Witness ==
    /\ dedup.called
    /\ Len(dedup.datasets) = 3 /\ Len(dedup.unique_datasets) = 2
    /\ dedup.datasets[1].url = dedup.datasets[3].url
    /\ dedup.datasets[1].url # None
    /\ dedup.datasets[1].found_in # dedup.datasets[3].found_in
    /\ dedup.unique_datasets[1].found_in = dedup.datasets[1].found_in


HasIdentifier(dataset) == dataset.url # None \/ dataset.accession # None

\* C12: every reference extract_from_html, BaseCollector.extract_datasets
\* and _deduplicate_datasets return has a non-empty url or accession (no
\* entry has a doi field); a candidate with neither is dropped.
C12_ReferenceHasIdentifier ==
    /\ extracted.returned
       => \A i \in 1..Len(extracted.datasets) : HasIdentifier(extracted.datasets[i])
    /\ dedup.called
       => \A i \in 1..Len(dedup.unique_datasets) : HasIdentifier(dedup.unique_datasets[i])

C12_Witness ==
    /\ dedup.called
    /\ \E i \in 1..Len(dedup.datasets) : ~HasIdentifier(dedup.datasets[i])
    /\ dedup.unique_datasets # <<>>
    /\ Len(dedup.unique_datasets) < Len(dedup.datasets)


(***************************************************************************)
(* Properties of the classifiers.                                          *)
(***************************************************************************)
IsIdentify(c) == c.fn = "_identify_repository"
IsDetect(c) == c.fn = "_detect_repository"
NoPatternFound(c) == PatternsFoundIn(c.args[1]) \cup PatternsFoundIn(c.args[2]) = {}
RepositoryNames == {data_repositories[i] : i \in 1..Len(data_repositories)}
MappedHosts == {"figshare.com", "zenodo.org", "osf.io", "dataverse.org", "datadryad.org",
                "openneuro.org", "nature.com", "github.com", "kaggle.com"}

C14_SameInputSameTag ==
    \A i, j \in 1..Len(classified) :
       (classified[i].fn = classified[j].fn /\ classified[i].args = classified[j].args)
       => classified[i].tag = classified[j].tag

DoiUrl == "https://doi.org/10.5281/zenodo.1"
MentionsDoiUrl(element) == \E i \in 1..Len(element) : element[i] = "T_doiurl"

\* C15 (as claimed): for a text with the URL https://doi.org/10.5281/zenodo.1
\* extraction and deduplication give exactly one reference with that URL;
\* its repository is the classifier's tag of the URL (zenodo) and its doi
\* field is 10.5281/zenodo.1.
C15_OneZenodoReferenceWithDoi ==
    (/\ extracted.returned /\ extracted.path = "normal"
     /\ \E e \in 1..Len(article.elements) : MentionsDoiUrl(article.elements[e]))
    => /\ Cardinality({i \in 1..Len(extracted.datasets) :
                          extracted.datasets[i].url = DoiUrl}) = 1
       /\ \A i \in 1..Len(extracted.datasets) :
             extracted.datasets[i].url = DoiUrl
             => /\ extracted.datasets[i].repository = _identify_repository(DoiUrl, "")
                /\ extracted.datasets[i].repository = "zenodo"
                /\ "doi" \in DOMAIN extracted.datasets[i]
                /\ extracted.datasets[i].doi = "10.5281/zenodo.1"


(***************************************************************************)
(* Properties of _download_with_retry.                                     *)
(***************************************************************************)
Transient == {0, 429, 503}
RequestsSent == Len(retry.answers) + (IF retry.state = "running" THEN 1 ELSE 0)

\* C16 (as claimed): a request answered with a non-transient failure (a
\* status other than 200, 5xx or 429, such as 404) is not repeated: it is the
\* last request of the call, which fails; only timeouts, 5xx and 429 are
\* followed by another request.
C16_NonTransientNotRetried ==
    \A k \in 1..Len(retry.answers) :
       retry.answers[k] \notin Transient \cup {200}
       => /\ k = Len(retry.answers)
          /\ retry.state = "failed"

\* C17: one call of _download_with_retry sends at most retry_count requests,
\* returns success at the first answer 200 without a further request,
\* returns failure exactly when retry_count requests were answered without a
\* 200, and returns whatever the answers are.
C17_RetryBounded ==
    /\ RequestsSent <= retry_count
    /\ retry.attempt <= Len(retry.answers)
    /\ \A k \in 1..Len(retry.answers) :
          retry.answers[k] = 200 => (k = Len(retry.answers) /\ retry.state = "ok")
    /\ retry.state = "ok" => retry.answers[Len(retry.answers)] = 200
    /\ retry.state = "failed"
       <=> (Len(retry.answers) = retry_count
            /\ \A k \in 1..Len(retry.answers) : retry.answers[k] # 200)

C17_BoundedRetry ==
    /\ []C17_RetryBounded
    /\ (retry.state = "running") ~> (retry.state \in {"ok", "failed"})

C17_Witness ==
    /\ retry.state = "ok"
    /\ Len(retry.answers) = retry_count
    /\ retry.answers[1] = 503 /\ retry.answers[2] = 0


(***************************************************************************)
(* Order of the strategies within one call.                                *)
(***************************************************************************)
\* C18 (as claimed): with browser automation switched on, webpage archival
\* runs only after the browser strategy has run and failed, and the browser
\* strategy runs only after the other strategies have failed.
C18_ArchivalAfterBrowser ==
    (call.op = "single" /\ call.use_selenium)
    => \A i \in 1..Len(call.trace) :
          /\ call.trace[i].strategy = "webpage"
             => \E j \in 1..(i - 1) : /\ call.trace[j].strategy = "selenium"
                                      /\ ~call.trace[j].ok
          /\ call.trace[i].strategy = "selenium"
             => \A j \in 1..(i - 1) : ~call.trace[j].ok


(***************************************************************************)
(* Properties of the browser strategy.                                     *)
(***************************************************************************)
CompletedFiles == {f \in browser.listing : f \notin SavedFiles /\ ~endswith_crdownload(f)}

\* C19 (as claimed): the browser strategy clicks at most 3 download controls,
\* and once it has returned it reports success exactly when the download
\* directory holds a completed file, i.e. one that is neither a partial
\* '.crdownload' file nor the saved page source or screenshot.
C19_SuccessNeedsCompletedFile ==
    /\ browser.clicked <= max_clicks
    /\ browser.state = "returned"
       => (browser.ok <=> CompletedFiles # {})


(***************************************************************************)
(* Properties of download_datasets_from_crawler_results.                   *)
(***************************************************************************)
InputRefs == Flatten(crawl.papers)
WantedTypes ==
    UNION {IF crawl.data_types[i] \in DOMAIN data_type_mapping
           THEN {data_type_mapping[crawl.data_types[i]][k] :
                    k \in 1..Len(data_type_mapping[crawl.data_types[i]])}
           ELSE {crawl.data_types[i]} : i \in 1..Len(crawl.data_types)}
DeclaredTypes(ref) == {ref.data_types[j] : j \in 1..Len(ref.data_types)}
DeclaresWanted(ref) == DeclaredTypes(ref) \cap WantedTypes # {}
NamesWanted(ref) ==
    /\ ref.data_types = <<>>
    /\ \E t \in WantedTypes : InText(t, ref.description \o " " \o ref.name)
PosOf(refs) == [i \in 1..Len(refs) |-> refs[i].pos]
FirstOf(refs, n) == SubSeq(refs, 1, Min(n, Len(refs)))
FilterAndCapCalled ==
    /\ crawl.called /\ crawl.data_types # <<>> /\ crawl.max_datasets >= 1
    /\ InputRefs # <<>>

\* C20 (as claimed): called with data_types and max_datasets, the function
\* hands to the downloader exactly the first max_datasets references, in
\* input order, among those whose declared data_types contain a requested
\* type or one of its aliases; a reference whose declared data_types match
\* none of the expanded types is never handed over.
C20_FilterByDeclaredThenCap ==
    FilterAndCapCalled
    => /\ crawl.downloader_called
       /\ PosOf(crawl.datasets)
            = PosOf(FirstOf(SelectSeq(InputRefs, DeclaresWanted), crawl.max_datasets))

\* C20 (amended): called with data_types and max_datasets >= 1, the function
\* hands to the downloader exactly the first max_datasets references, in
\* input order, among those that declare a requested type or one of its
\* aliases or that declare no data type at all and carry one of these types
\* in their name or description; a reference that declares data types none
\* of which is among the expanded types is never handed over, and the cap is
\* applied after the filter.
C20_FilterThenCap ==
    FilterAndCapCalled
    => LET Eligible(ref) == DeclaresWanted(ref) \/ NamesWanted(ref)
       IN  /\ crawl.downloader_called
           /\ PosOf(crawl.datasets)
                = PosOf(FirstOf(SelectSeq(InputRefs, Eligible), crawl.max_datasets))
           /\ \A i \in 1..Len(crawl.datasets) :
                 crawl.datasets[i].data_types # <<>> => DeclaresWanted(crawl.datasets[i])

C20_Witness ==
    /\ FilterAndCapCalled
    /\ Len(crawl.datasets) = crawl.max_datasets
    /\ crawl.datasets[1].pos > 1
    /\ \E i \in 1..Len(InputRefs) :
          /\ DeclaresWanted(InputRefs[i])
          /\ InputRefs[i].pos > crawl.datasets[Len(crawl.datasets)].pos
    /\ \E i \in 1..Len(crawl.datasets) : crawl.datasets[i].data_types = <<>>


(***************************************************************************)
(* Properties of the history store.                                        *)
(***************************************************************************)
Built == store.state = "built"

\* C21: when download_history.json is absent, unreadable or corrupt at
\* start-up, constructing the downloader raises nothing and the history
\* starts empty: it holds only keys recorded in this run, and a reference is
\* skipped as already downloaded only after this run has recorded it.
C21_FailOpen ==
    store.found \in {"absent", "unreadable", "corrupt"}
    => /\ ~store.raised
       /\ DOMAIN store.download_history \subseteq store.own
       /\ store.own = {} => store.download_history = EmptyHistory
       /\ store.item.outcome = "skipped" => store.item.key \in store.own

C21_Witness ==
    /\ Built /\ store.found = "corrupt"
    /\ store.item.outcome = "success" /\ store.own # {}

C23_SlowItemBlocksNoOther ==
    (/\ batch.running /\ pending # NoPending
     /\ Len(batch.datasets) <= max_concurrent_downloads)
    => batch.i = Len(batch.datasets)


(***************************************************************************)
(* Properties of the output directories.                                   *)
(***************************************************************************)
\* C24 (as claimed): two references with different idempotency keys are
\* never given the same output directory.
C24_DirectoriesPartitioned ==
    layout.state = "assigned"
    => \A i, j \in 1..Len(layout.datasets) :
          _get_download_id(layout.datasets[i]) # _get_download_id(layout.datasets[j])
          => layout.dataset_dir[i] # layout.dataset_dir[j]


(***************************************************************************)
(* Frame of the download side.                                             *)
(***************************************************************************)
\* C25 (as claimed): download_datasets_from_crawler_results leaves every
\* reference passed in unchanged: after the call the dataset dicts of the
\* papers hold the fields and values they held before it.
C25_ReferencesUnchanged ==
    crawl.called => crawl.papers = crawl.given


(***************************************************************************)
(* Order of the requests of _download_github.                              *)
(***************************************************************************)
GithubFirst ==
    /\ pending.strategy = "github" /\ call.trace = <<>>
    /\ github_match(call.dataset.url)

\* C26: for a GitHub repository URL _download_github requests main.zip
\* first; master.zip is requested only after retry_count requests for
\* main.zip have failed; the page is requested only after retry_count more
\* requests for master.zip have failed; and once an archive is downloaded
\* the strategy has returned success with no request outstanding.
C26_GithubOrder ==
    /\ GithubFirst /\ pending.pc = "main"
       => call.requests = pending.attempt + 1 /\ pending.attempt < retry_count
    /\ GithubFirst /\ pending.pc = "master"
       => call.requests = retry_count + pending.attempt + 1 /\ pending.attempt < retry_count
    /\ GithubFirst => pending.pc \in {"main", "master", "html"}
    /\ GithubFirst /\ pending.pc = "html" => call.requests = 2 * retry_count + 1
    /\ call.done /\ call.message = "github_zip_saved"
       => /\ pending = NoPending /\ call.ok
          /\ Len(call.trace) = 1 => call.requests <= 2 * retry_count
          /\ call.trace[Len(call.trace)].strategy = "github"
          /\ call.trace[Len(call.trace)].got200

C26_Witness ==
    /\ call.done /\ call.message = "github_zip_saved"
    /\ call.requests = 2 * retry_count /\ Len(call.trace) = 1


(***************************************************************************)
(* The keyword search of extract_from_html.                                *)
(***************************************************************************)
ZenodoAnchorIn(element) == \E i \in 1..Len(element) : element[i] = "A_zen"

\* C27 (as claimed): for every journal type, when a page has no
\* data-availability section, a link to a known repository (the Zenodo
\* anchor) in a paragraph that holds a watch-list keyword yields a reference
\* in the result.
C27_KeywordFallbackEveryJournal ==
    (/\ extracted.returned /\ article.html_content # ""
     /\ article.section = 0
     /\ \E e \in 1..Len(article.elements) :
           ZenodoAnchorIn(article.elements[e]) /\ HasKeyword(article.elements[e]))
    => \E i \in 1..Len(extracted.datasets) :
          extracted.datasets[i].url = "https://zenodo.org/record/1"


(***************************************************************************)
(* Repeated URLs within one batch.                                         *)
(***************************************************************************)
SameUrl(i, j) ==
    /\ batch.datasets[i].url # EmptyUrl
    /\ batch.datasets[i].url = batch.datasets[j].url

\* C28: within one call of download_datasets, when a URL occurs several
\* times and an occurrence is downloaded successfully, every later
\* occurrence is counted as skipped and runs no download strategy; so at
\* most one occurrence of a URL is downloaded successfully.
C28_OneSuccessPerUrl ==
    \A i, j \in 1..Len(batch.log) :
       (i < j /\ SameUrl(i, j) /\ batch.log[i].outcome = "success")
       => /\ batch.log[j].outcome = "skipped_exists"
          /\ batch.log[j].ran = 0
          /\ batch.skipped_count >= 1

C28_Witness ==
    /\ batch.returned
    /\ \E i, j \in 1..Len(batch.log) :
          /\ i < j /\ SameUrl(i, j)
          /\ batch.log[i].outcome = "success" /\ batch.log[i].ran = 1
          /\ batch.log[j].outcome = "skipped_exists"


(***************************************************************************)
(* Properties of the scheduler.                                            *)
(***************************************************************************)
\* C29 (as claimed): a job added without job_id gets an id no registered
\* job has, so it replaces no job, and Scheduler.jobs never holds two jobs
\* with the same id.
C29_DefaultIdsUnique ==
    scheduler.last.op = "add_job_default"
    => /\ ~scheduler.last.existed
       /\ \A i \in 1..(Len(scheduler.jobs) - 1) :
             scheduler.jobs[i] # scheduler.jobs[Len(scheduler.jobs)]


(***************************************************************************)
(* Properties of the proxy refresh.                                        *)
(***************************************************************************)
\* C30: executions of update_proxies never overlap: at most one thread is
\* fetching and validating, and it holds the lock; and a refresh that found
\* a working proxy is followed by no other refresh, of any thread, that
\* starts less than update_interval after it.
C30_RefreshSerializedAndThrottled ==
    proxy.built
    => /\ \A t, u \in Threads :
             proxy.pc[t] = "fetching" /\ proxy.pc[u] = "fetching" => t = u
       /\ \A t \in Threads : proxy.pc[t] = "fetching" <=> proxy.lock = t
       /\ \A i, j \in 1..Len(proxy.fetches) :
             (i < j /\ proxy.fetches[i].found = "some")
             => proxy.fetches[j].now - proxy.fetches[i].now >= update_interval

C30_Witness ==
    /\ proxy.built
    /\ Len(proxy.fetches) = 1 /\ proxy.fetches[1].found = "some"
    /\ proxy.fetches[1].thread = 1
    /\ 2 \in proxy.skipped
    /\ proxy.clock - proxy.fetches[1].now < update_interval

====
